---- MODULE Spec2Model ----
(***************************************************************************)
(* A state-machine model of the transfer-learning notebook                 *)
(* (Deep Learning and Reinforcement Learning/transfer-learning.ipynb).     *)
(*                                                                         *)
(* The notebook is a straight-line program of eleven code cells: two       *)
(* pipelines (ResNet50, Xception), each of which builds a Sequential model *)
(* (pretrained backbone + Dense head), freezes layer 0, compiles, creates  *)
(* two directory iterators from one ImageDataGenerator and calls fit.      *)
(* fit is unfolded into its steps: the data-handler set-up, the training   *)
(* steps of the epoch, the validation step and the return.                 *)
(*                                                                         *)
(* Weight tensors are abstracted to one integer per weight group, which a  *)
(* gradient update moves by one unit; pixel data to "which image, flipped  *)
(* or not".  What the random number generators and the per-batch           *)
(* accuracies evaluate to is drawn from small sets.                        *)
(***************************************************************************)
EXTENDS Integers, Sequences, FiniteSets, TLC

(* ------------------------------ bounds --------------------------------- *)
MaxSeed == 1      \* random permutations are drawn from Shuffle(n, 0..MaxSeed)
MaxFlipPos == 1   \* only the first MaxFlipPos images of a batch may come out flipped
AccLevels == 1    \* a batch's number of correct predictions is size*k/AccLevels
MaxSkew == 1      \* a directory holds n/2 - MaxSkew .. n/2 + MaxSkew rural images

(* ------------------------- program constants --------------------------- *)
seed_value == 123          \* seed = 123
num_classes == 2           \* num_classes = 2
feature_dim == 2048        \* backbone output shape (None, 2048), pooling='avg'
resnet50_params == 23587712
xception_params == 20861480
train_n == 72              \* Found 72 images belonging to 2 classes.
val_n == 20                \* Found 20 images belonging to 2 classes.
train_batch_size == 12
val_batch_size == 20
steps_per_epoch == 6
validation_steps == 1
epochs == 1                \* fit's default, no epochs argument is passed
LastCell == 11

(* ------------------------------ helpers -------------------------------- *)
Min(a, b) == IF a < b THEN a ELSE b

RECURSIVE SumSeq(_)
SumSeq(s) == IF s = <<>> THEN 0 ELSE Head(s) + SumSeq(Tail(s))

Range(s) == {s[i] : i \in DOMAIN s}

\* np.random.permutation(n) / random.shuffle: a permutation of 0..n-1, one
\* per seed (an affine map whose multiplier is coprime to 72, 20 and 6).
Shuffle(n, s) ==
    [i \in 1..n |-> ((IF s % 2 = 0 THEN 1 ELSE 7) * (i - 1) + s) % n]

Seeds == 0..MaxSeed

(* ------------------------ the Sequential model ------------------------- *)
WeightNames == {"backbone", "bn_moving", "kernel", "bias"}

\* The layer (1-based: layers[0] is layer 1) that owns a weight group.
WeightLayer(w) == IF w \in {"backbone", "bn_moving"} THEN 1 ELSE 2

NoModel ==
    [arch |-> "none", layers |-> <<>>, weights |-> [w \in WeightNames |-> 0],
     compiled |-> FALSE, iterations |-> 0]

\* The pretrained backbone as loaded by ResNet50(...)/Xception(...).
PretrainedValue(arch) == IF arch = "resnet50" THEN 50 ELSE 71

BackboneParams(arch) ==
    IF arch = "resnet50" THEN resnet50_params ELSE xception_params

BackboneLayer(arch) ==
    [name |-> arch, trainable |-> TRUE, units |-> feature_dim,
     params |-> BackboneParams(arch)]

DenseWithoutBias(input_dim, units) ==
    [name |-> "dense", trainable |-> TRUE, units |-> units,
     params |-> input_dim * units]

\* Dense(units): kernel (input_dim x units) and bias (units).
Dense(input_dim, units) ==
    [name |-> "dense", trainable |-> TRUE, units |-> units,
     params |-> input_dim * units + units]

FreezeNothing(layers) == layers

\* my_new_model.layers[0].trainable = False
FreezeFirstLayer(layers) ==
    [layers EXCEPT ![1] = [layers[1] EXCEPT !.trainable = FALSE]]

Sequential(arch) ==
    LET l0 == BackboneLayer(arch)
        l1 == Dense(l0.units, num_classes)
    IN [arch |-> arch,
        layers |-> FreezeFirstLayer(<<l0, l1>>),
        weights |-> [w \in WeightNames |->
                        IF WeightLayer(w) = 1 THEN PretrainedValue(arch) ELSE 0],
        compiled |-> FALSE,
        iterations |-> 0]

create_model_from_resnet == Sequential("resnet50")

create_model_from_xception == Sequential("xception")

\* model.trainable_weights: the gradient-updated groups of trainable layers
\* (batch-norm moving statistics are never in it).
TrainableWeights(m) ==
    {w \in {"backbone", "kernel", "bias"} : m.layers[WeightLayer(w)].trainable}

\* The three totals printed by summary().
TrainableParams(m) ==
    SumSeq([i \in DOMAIN m.layers |->
               IF m.layers[i].trainable THEN m.layers[i].params ELSE 0])

NonTrainableParams(m) ==
    SumSeq([i \in DOMAIN m.layers |->
               IF m.layers[i].trainable THEN 0 ELSE m.layers[i].params])

TotalParams(m) == SumSeq([i \in DOMAIN m.layers |-> m.layers[i].params])

(* --------------------------- the data loaders -------------------------- *)
NoDataGenerator ==
    [id |-> 0, preprocessing_function |-> "none", horizontal_flip |-> FALSE]

NoGenerator ==
    [directory |-> "none", n |-> 0, batch_size |-> 1, subdir |-> <<>>,
     classes |-> <<>>, num_classes |-> 0, index_array |-> <<>>,
     total_batches_seen |-> 0, image_data_generator |-> NoDataGenerator]

\* ImageDataGenerator(preprocessing_function=preprocess_input, horizontal_flip=True)
ImageDataGenerator(id, preprocess) ==
    [id |-> id, preprocessing_function |-> preprocess, horizontal_flip |-> TRUE]

\* The commented-out alternative: a second generator object without augmentation.
PlainDataGenerator(idg) ==
    [idg EXCEPT !.id = @ + 100, !.horizontal_flip = FALSE]

\* The object whose flow_from_directory builds validation_generator:
\* data_generator itself.
ValidationDataGenerator(idg) == idg

\* class_indices: the class subdirectories in alphabetical order.
ClassIndex(d) == IF d = "rural" THEN 0 ELSE 1

\* flow_from_directory: the files of the first class, then of the second;
\* image i (0-based) is element i+1 of subdir and classes.
flow_from_directory(idg, directory, n, n_rural, batch_size) ==
    LET subdir == [i \in 1..n |-> IF i <= n_rural THEN "rural" ELSE "urban"]
    IN [directory |-> directory, n |-> n, batch_size |-> batch_size,
        subdir |-> subdir,
        classes |-> [i \in 1..n |-> ClassIndex(subdir[i])],
        num_classes |-> Cardinality(Range(subdir)),
        index_array |-> <<>>,
        total_batches_seen |-> 0,
        image_data_generator |-> idg]

\* Iterator.__len__: ceil(n / batch_size)
GenLen(g) == (g.n + g.batch_size - 1) \div g.batch_size

\* class_mode='categorical': the one-hot row of a class index.
OneHotOffByOne(c, k) == [j \in 1..k |-> IF j = c THEN 1 ELSE 0]

OneHot(c, k) == [j \in 1..k |-> IF j = c + 1 THEN 1 ELSE 0]

\* The flip decisions get_random_transform may draw for a batch of `size`.
FlipMasks(idg, size) ==
    IF idg.horizontal_flip THEN SUBSET (1..Min(size, MaxFlipPos)) ELSE {{}}

\* Iterator.__getitem__(idx) once index_array is set: the slice
\* index_array[batch_size*idx : batch_size*(idx+1)], each image transformed
\* (flipped for the positions in mask) and labelled.
GetItemFirstBatch(g, idx, mask) ==
    LET x == SubSeq(g.index_array, 1, Min(g.batch_size, g.n))
    IN [directory |-> g.directory,
        x |-> x,
        flipped |-> {x[p] : p \in mask \cap DOMAIN x},
        y |-> [p \in DOMAIN x |-> OneHot(g.classes[x[p] + 1], g.num_classes)]]

GetItemShortSlice(g, idx, mask) ==
    LET lo == g.batch_size * idx + 1
        hi == Min(g.batch_size * (idx + 1), g.n) - 1
        x == SubSeq(g.index_array, lo, hi)
    IN [directory |-> g.directory,
        x |-> x,
        flipped |-> {x[p] : p \in mask \cap DOMAIN x},
        y |-> [p \in DOMAIN x |-> OneHot(g.classes[x[p] + 1], g.num_classes)]]

GetItem(g, idx, mask) ==
    LET lo == g.batch_size * idx + 1
        hi == Min(g.batch_size * (idx + 1), g.n)
        x == SubSeq(g.index_array, lo, hi)
    IN [directory |-> g.directory,
        x |-> x,
        flipped |-> {x[p] : p \in mask \cap DOMAIN x},
        y |-> [p \in DOMAIN x |-> OneHot(g.classes[x[p] + 1], g.num_classes)]]

NoBatch == [directory |-> "none", x |-> <<>>, flipped |-> {}, y |-> <<>>]

(* ------------------------------- state --------------------------------- *)
VARIABLES
    cell,                  \* the next code cell to execute (1..LastCell+1)
    fitpc,                 \* position inside fit: idle, train, val, end
    seed,                  \* the notebook's seed variable (0: not yet set)
    defined,               \* the model-building functions defined so far
    my_new_model,          \* the Sequential model
    created_weights,       \* the weights my_new_model had when it was created
    data_generator,        \* the ImageDataGenerator
    train_generator,
    validation_generator,
    run                    \* the state of the fit call in progress (its logs included)

vars == <<cell, fitpc, seed, defined, my_new_model, created_weights,
          data_generator, train_generator, validation_generator, run>>

NoRun ==
    [order |-> <<>>, epoch |-> 0, step |-> 0, val_step |-> 0,
     batch |-> NoBatch,
     seen |-> [i \in 0..(train_n - 1) |-> 0],
     val_seen |-> [i \in 0..(val_n - 1) |-> 0],
     acc_total |-> 0, acc_count |-> 0, step_acc_sum |-> 0,
     val_total |-> 0, val_count |-> 0,
     fwd_iter |-> 0, fwd_weights |-> [w \in WeightNames |-> 0],
     val_flipped |-> FALSE]

\* What each code cell of the notebook does.
CellKind(c) ==
    CASE c = 1 -> "seed"
      [] c = 2 -> "def_resnet"
      [] c = 3 -> "create_resnet"
      [] c = 4 -> "compile"
      [] c = 5 -> "load_resnet"
      [] c = 6 -> "fit"
      [] c = 7 -> "def_xception"
      [] c = 8 -> "load_xception"
      [] c = 9 -> "create_xception"
      [] c = 10 -> "compile"
      [] c = 11 -> "fit"
      [] OTHER -> "done"

Init ==
    /\ cell = 1
    /\ fitpc = "idle"
    /\ seed = 0
    /\ defined = {}
    /\ my_new_model = NoModel
    /\ created_weights = NoModel.weights
    /\ data_generator = NoDataGenerator
    /\ train_generator = NoGenerator
    /\ validation_generator = NoGenerator
    /\ run = NoRun

(* ------------------------------ the cells ------------------------------ *)
\* seed = 123; random.seed(seed); np.random.seed(seed); tf.random.set_seed(seed)
SetSeed ==
    /\ CellKind(cell) = "seed"
    /\ seed' = seed_value
    /\ cell' = cell + 1
    /\ UNCHANGED <<fitpc, defined, my_new_model, created_weights, data_generator,
                   train_generator, validation_generator, run>>

\* def create_model_from_resnet(): ... / def create_model_from_xception(): ...
DefineModelFn ==
    /\ CellKind(cell) \in {"def_resnet", "def_xception"}
    /\ defined' = defined \cup
          {IF CellKind(cell) = "def_resnet" THEN "create_model_from_resnet"
                                            ELSE "create_model_from_xception"}
    /\ cell' = cell + 1
    /\ UNCHANGED <<fitpc, seed, my_new_model, created_weights, data_generator,
                   train_generator, validation_generator, run>>

\* my_new_model = create_model_from_...(); my_new_model.summary()
CreateModel ==
    /\ CellKind(cell) \in {"create_resnet", "create_xception"}
    /\ IF CellKind(cell) = "create_resnet"
         THEN /\ "create_model_from_resnet" \in defined
              /\ my_new_model' = create_model_from_resnet
         ELSE /\ "create_model_from_xception" \in defined
              /\ my_new_model' = create_model_from_xception
    /\ created_weights' = my_new_model'.weights
    /\ cell' = cell + 1
    /\ UNCHANGED <<fitpc, seed, defined, data_generator, train_generator,
                   validation_generator, run>>

\* my_new_model.compile(optimizer='sgd', loss='categorical_crossentropy',
\*                      metrics=['accuracy'])
Compile ==
    /\ CellKind(cell) = "compile"
    /\ my_new_model.arch # "none"
    /\ my_new_model' = [my_new_model EXCEPT !.compiled = TRUE]
    /\ cell' = cell + 1
    /\ UNCHANGED <<fitpc, seed, defined, created_weights, data_generator,
                   train_generator, validation_generator, run>>

\* data_generator = ImageDataGenerator(...); train_generator = ...;
\* validation_generator = data_generator.flow_from_directory(...)
LoadData ==
    /\ CellKind(cell) \in {"load_resnet", "load_xception"}
    /\ \E skew \in (0 - MaxSkew)..MaxSkew :
         LET idg == ImageDataGenerator(cell,
                       IF CellKind(cell) = "load_resnet"
                         THEN "resnet50.preprocess_input"
                         ELSE "xception.preprocess_input")
         IN /\ data_generator' = idg
            /\ train_generator' =
                 flow_from_directory(idg, "train", train_n,
                                     train_n \div 2 + skew, train_batch_size)
            /\ validation_generator' =
                 flow_from_directory(ValidationDataGenerator(idg), "val", val_n,
                                     val_n \div 2 - skew, val_batch_size)
    /\ cell' = cell + 1
    /\ UNCHANGED <<fitpc, seed, defined, my_new_model, created_weights, run>>

(* -------------------------------- fit ---------------------------------- *)
\* Iterator._set_index_array with shuffle=True (flow_from_directory's default).
SetIndexArray(g, s) == [g EXCEPT !.index_array = Shuffle(g.n, s)]

\* Sequence.on_epoch_end: the index array is shuffled anew.  The new
\* permutation is independent of everything before it, so it is drawn when
\* it is first read (by Touch) rather than here.
on_epoch_end(g) == [g EXCEPT !.index_array = <<>>]

\* Iterator.__getitem__'s bookkeeping: the index array is drawn on first use.
Touch(g, s) ==
    [(IF g.index_array = <<>> THEN SetIndexArray(g, s) ELSE g)
        EXCEPT !.total_batches_seen = @ + 1]

\* The per-image visit counts after the images of batch x have been fed.
CountSeen(seen, x) ==
    [i \in DOMAIN seen |-> seen[i] + Cardinality({p \in DOMAIN x : x[p] = i})]

\* The numbers of correct predictions a batch of `size` images may score.
CorrectChoices(size) == {(size * k) \div AccLevels : k \in 0..AccLevels}

\* Accuracies are kept as integers: accuracy * AccScale.
AccScale == train_batch_size * val_batch_size

\* The forward pass with training=True: a batch-norm layer moves its moving
\* statistics only when its layer is trainable (a frozen layer runs in
\* inference mode).
ForwardTraining(m) ==
    [m EXCEPT !.weights["bn_moving"] =
        IF m.layers[WeightLayer("bn_moving")].trainable THEN @ + 1 ELSE @]

\* optimizer.apply_gradients over model.trainable_weights: every trainable
\* group moves by one (abstract) SGD step, the others keep their value.
ApplyGradients(m) ==
    [m EXCEPT !.weights = [w \in WeightNames |->
                              IF w \in TrainableWeights(m) THEN @[w] - 1 ELSE @[w]],
              !.iterations = @ + 1]

train_step_update_first(m) ==
    LET upd == ApplyGradients(m)
        fwd == ForwardTraining(upd)
    IN [model |-> fwd, y_pred_weights |-> fwd.weights,
        y_pred_iter |-> upd.iterations]

\* Model.train_step: the forward pass (whose predictions feed the loss and the
\* accuracy metric) reads the weights, then the optimizer updates them.
train_step(m) ==
    LET fwd == ForwardTraining(m)
    IN [model |-> ApplyGradients(fwd), y_pred_weights |-> fwd.weights,
        y_pred_iter |-> m.iterations]

EpochDoneSwapped(step, order) ==
    step >= validation_steps \/ step = Len(order)

\* The epoch's training loop ends after steps_per_epoch steps (or when the
\* epoch's batches run out).
EpochDone(step, order) ==
    step = steps_per_epoch \/ step = Len(order)

\* fit(train_generator, steps_per_epoch=6, validation_data=validation_generator,
\*     validation_steps=1): the data handler peeks batch 0 of the Sequence and
\* the epoch's batch order is a shuffle of range(len(x)).
FitBegin ==
    /\ CellKind(cell) = "fit"
    /\ fitpc = "idle"
    /\ my_new_model.compiled
    /\ train_generator.n > 0
    /\ \E s1 \in Seeds, s2 \in Seeds :
         /\ train_generator' = Touch(train_generator, s1)
         /\ run' = [NoRun EXCEPT !.order = Shuffle(GenLen(train_generator), s2),
                                 !.epoch = 1]
    /\ fitpc' = "train"
    /\ UNCHANGED <<cell, seed, defined, my_new_model, created_weights,
                   data_generator, validation_generator>>

\* One training step: next batch, forward pass, metrics, gradient update.
TrainStep ==
    /\ fitpc = "train"
    /\ ~EpochDone(run.step, run.order)
    /\ \E mask \in FlipMasks(train_generator.image_data_generator,
                           train_generator.batch_size) :
       \E b \in {GetItem(train_generator, run.order[run.step + 1], mask)},
          ts \in {train_step(my_new_model)} :
       \E fed \in {CountSeen(run.seen, b.x)},
          correct \in CorrectChoices(Len(b.x)) :
         /\ my_new_model' = ts.model
         /\ run' = [run EXCEPT
               !.step = @ + 1,
               !.batch = b,
               !.seen = fed,
               !.acc_total = @ + correct,
               !.acc_count = @ + Len(b.x),
               !.step_acc_sum = @ + (correct * AccScale) \div Len(b.x),
               !.fwd_iter = ts.y_pred_iter,
               !.fwd_weights = ts.y_pred_weights]
         /\ fitpc' = IF EpochDone(run.step + 1, run.order)
                     THEN "val" ELSE "train"
    /\ train_generator' =
         [train_generator EXCEPT !.total_batches_seen = @ + 1]
    /\ UNCHANGED <<cell, seed, defined, created_weights, data_generator,
                   validation_generator>>

\* The validation pass at the end of the epoch: evaluate() over
\* validation_steps batches of validation_generator, in order, training=False.
ValStep ==
    /\ fitpc = "val"
    /\ run.val_step < validation_steps
    /\ run.val_step < GenLen(validation_generator)
    /\ \E s \in Seeds,
          mask \in FlipMasks(validation_generator.image_data_generator,
                           validation_generator.batch_size) :
       \E vg \in {Touch(validation_generator, s)} :
       \E b \in {GetItem(vg, run.val_step, mask)} :
       \E fed \in {CountSeen(run.val_seen, b.x)},
          correct \in CorrectChoices(Len(b.x)) :
         /\ validation_generator' = [vg EXCEPT !.total_batches_seen = @ + 1]
         /\ run' = [run EXCEPT
               !.val_step = @ + 1,
               !.batch = b,
               !.val_seen = fed,
               !.val_total = @ + correct,
               !.val_count = @ + Len(b.x),
               !.fwd_iter = my_new_model.iterations,
               !.fwd_weights = my_new_model.weights,
               !.val_flipped = (b.flipped # {})]
    /\ fitpc' = IF run.val_step + 1 = validation_steps THEN "end" ELSE "val"
    /\ UNCHANGED <<cell, seed, defined, my_new_model, created_weights,
                   data_generator, train_generator>>

\* fit returns (its History is only displayed); both Sequences get
\* on_epoch_end.
FitEnd ==
    /\ fitpc = "end"
    /\ run.epoch = epochs
    /\ train_generator' = on_epoch_end(train_generator)
    /\ validation_generator' = on_epoch_end(validation_generator)
    /\ run' = NoRun
    /\ fitpc' = "idle"
    /\ cell' = cell + 1
    /\ UNCHANGED <<seed, defined, my_new_model, created_weights, data_generator>>

Next ==
    \/ SetSeed
    \/ DefineModelFn
    \/ CreateModel
    \/ Compile
    \/ LoadData
    \/ FitBegin
    \/ TrainStep
    \/ ValStep
    \/ FitEnd

Spec == Init /\ [][Next]_vars

(* ----------------------------- properties ------------------------------ *)
ModelExists == my_new_model.arch # "none"

Identity(n) == [i \in 1..n |-> i - 1]

\* C1: every weight of the pretrained backbone (layer 0: its kernels and its
\* batch-norm statistics) has, in every state from the model's creation to
\* the return of fit, the value it had when the model was created.
BackboneWeightsUnchanged ==
    ModelExists =>
        \A w \in WeightNames :
            WeightLayer(w) = 1 => my_new_model.weights[w] = created_weights[w]

\* C1 witness: fit on the Xception model has run its six updates, the head has
\* moved, and (the ResNet50 fit having finished before) the backbone has not.
BackboneWeightsUnchangedWitness ==
    /\ cell = 11
    /\ fitpc = "end"
    /\ my_new_model.iterations = 6
    /\ my_new_model.weights["kernel"] # created_weights["kernel"]
    /\ my_new_model.weights["backbone"] = created_weights["backbone"]

\* C2: the trainable parameters are exactly the Dense head's kernel and bias,
\* 2048 * 2 + 2 = 4098 of them; the backbone's parameters (23587712 for
\* ResNet50, 20861480 for Xception) are all non-trainable; and the total is
\* the sum of the two.
ParameterCounts ==
    ModelExists =>
        /\ TrainableWeights(my_new_model) = {"kernel", "bias"}
        /\ TrainableParams(my_new_model) = 4098
        /\ TrainableParams(my_new_model) = 2048 * 2 + 2
        /\ NonTrainableParams(my_new_model) =
             (IF my_new_model.arch = "resnet50" THEN 23587712 ELSE 20861480)
        /\ TotalParams(my_new_model) =
             (IF my_new_model.arch = "resnet50" THEN 23591810 ELSE 20865578)
        /\ TotalParams(my_new_model) =
             TrainableParams(my_new_model) + NonTrainableParams(my_new_model)

\* C2 witness: the Xception model has been built and summarised.
ParameterCountsWitness ==
    /\ cell = 10
    /\ my_new_model.arch = "xception"
    /\ NonTrainableParams(my_new_model) = 20861480

\* What is left of a fit call: its remaining training steps, its remaining
\* validation steps and its return.
FitRemaining ==
    IF fitpc = "idle" THEN 0 ELSE (6 - run.step) + (1 - run.val_step) + 1

InFit == fitpc \in {"train", "val", "end"}

\* C3: a fit call never runs more than 6 training steps and 1 validation
\* step, validates only after the 6th training step, and has taken exactly 6
\* training steps (6 optimizer updates over 6 batches of 12) and 1 validation
\* step in 1 epoch when it returns; and it does return: inside fit a next
\* step is always possible and every step leaves strictly less to do.
FitRunsFixedSteps ==
    /\ [](/\ run.step <= 6
          /\ run.val_step <= 1
          /\ (fitpc \in {"val", "end"} => run.step = 6)
          /\ (fitpc \in {"train", "val"} => run.val_step = 0)
          /\ (InFit =>
                /\ my_new_model.iterations = run.step
                /\ run.acc_count = 12 * run.step
                /\ run.epoch = 1)
          /\ (fitpc = "end" => run.val_step = 1)
          /\ (InFit => ENABLED Next))
    /\ [][InFit => FitRemaining' < FitRemaining]_vars

\* C3 witness: the ResNet50 fit is about to return after 6 + 1 steps.
FitRunsFixedStepsWitness ==
    /\ cell = 6
    /\ fitpc = "end"
    /\ run.step = 6
    /\ run.val_step = 1

\* C4: every training batch holds exactly 12 distinct images, no image is fed
\* twice within the epoch, and after the 6 training steps every one of the 72
\* training images has been fed exactly once.
EpochVisitsEachTrainingImageOnce ==
    /\ \A i \in DOMAIN run.seen : run.seen[i] <= 1
    /\ Cardinality({i \in DOMAIN run.seen : run.seen[i] = 1}) = 12 * run.step
    /\ run.batch.directory = "train" =>
          /\ Len(run.batch.x) = 12
          /\ Cardinality(Range(run.batch.x)) = 12
    /\ fitpc \in {"val", "end"} =>
          \A i \in 0..71 : run.seen[i] = 1

\* C4 witness: the epoch's six batches have been fed, with a shuffled image
\* order and a shuffled batch order.
EpochVisitsEachTrainingImageOnceWitness ==
    /\ fitpc = "val"
    /\ run.step = 6
    /\ run.order # Identity(6)
    /\ train_generator.index_array # Identity(72)

\* C5: the single validation step feeds a batch of 20 distinct images, and
\* when fit is about to return every one of the 20 validation images has
\* been evaluated exactly once.
ValidationStepCoversAllImages ==
    /\ run.batch.directory = "val" =>
          /\ Len(run.batch.x) = 20
          /\ Cardinality(Range(run.batch.x)) = 20
    /\ fitpc = "end" =>
          /\ run.val_step = 1
          /\ run.val_count = 20
          /\ \A i \in 0..19 : run.val_seen[i] = 1

\* C5 witness: the validation step has run over a shuffled validation set.
ValidationStepCoversAllImagesWitness ==
    /\ fitpc = "end"
    /\ run.val_count = 20
    /\ validation_generator.index_array # Identity(20)

\* C6: each training step's metrics come from a forward pass made with the
\* weights as they were before that step's update (so step k measures the
\* weights after k-1 updates); the validation metrics come from a forward
\* pass made after all 6 updates, with the final head weights; and the
\* reported training accuracy acc_total/acc_count is the mean of the
\* per-step accuracies.
ValidationAfterTraining ==
    /\ (run.step > 0 /\ run.val_step = 0) =>
          /\ run.fwd_iter = run.step - 1
          /\ run.fwd_iter = my_new_model.iterations - 1
          /\ run.fwd_weights["kernel"] = my_new_model.weights["kernel"] + 1
          /\ run.fwd_weights["bias"] = my_new_model.weights["bias"] + 1
    /\ run.val_step > 0 =>
          /\ run.step = 6
          /\ run.fwd_iter = 6
          /\ run.fwd_weights = my_new_model.weights
          /\ run.fwd_weights["kernel"] = created_weights["kernel"] - 6
    /\ run.step > 0 =>
          run.acc_total * AccScale * run.step = run.step_acc_sum * run.acc_count

\* C6 witness: fit is about to return with a training accuracy below 1 (some
\* early step scored nothing) and a validation accuracy of 1.
ValidationAfterTrainingWitness ==
    /\ fitpc = "end"
    /\ run.acc_total > 0
    /\ run.acc_total < run.acc_count
    /\ run.val_total = run.val_count
    /\ run.fwd_iter = 6

\* The generator a batch was drawn from.
BatchGenerator ==
    IF run.batch.directory = "train" THEN train_generator ELSE validation_generator

\* C7: every label of every batch is a one-hot row over exactly two classes,
\* its 1 at the index of the class subdirectory (rural, urban) the image was
\* read from, and its length is the number of units of the Dense head.
LabelsAreOneHotOverTwoClasses ==
    run.batch.directory # "none" =>
        \A p \in DOMAIN run.batch.x :
            LET y == run.batch.y[p]
                d == BatchGenerator.subdir[run.batch.x[p] + 1]
            IN /\ Len(y) = 2
               /\ Len(y) = my_new_model.layers[2].units
               /\ \A j \in 1..2 : y[j] \in {0, 1}
               /\ y[1] + y[2] = 1
               /\ d \in {"rural", "urban"}
               /\ y[1] = 1 <=> d = "rural"
               /\ y[2] = 1 <=> d = "urban"

\* C7 witness: a training batch that mixes urban and rural images.
LabelsAreOneHotOverTwoClassesWitness ==
    /\ run.batch.directory = "train"
    /\ \E p, q \in DOMAIN run.batch.x : run.batch.y[p] # run.batch.y[q]

\* C8: both iterators are built from the one ImageDataGenerator, whose
\* horizontal_flip is on, so whenever a validation step is due it can feed a
\* flipped validation image just as a training step can feed a flipped
\* training image.
ValidationIsAugmented ==
    /\ train_generator.directory # "none" =>
          /\ validation_generator.image_data_generator =
                train_generator.image_data_generator
          /\ validation_generator.image_data_generator = data_generator
          /\ data_generator.horizontal_flip
    /\ fitpc = "val" => ENABLED (ValStep /\ run'.val_flipped)
    /\ fitpc = "train" => ENABLED (TrainStep /\ run'.batch.flipped # {})

\* C8 witness: the validation step has evaluated a flipped validation image.
ValidationIsAugmentedWitness ==
    /\ fitpc = "end"
    /\ run.val_flipped
    /\ run.batch.directory = "val"
    /\ run.batch.flipped # {}

====
